---- MODULE Spec2Model ----
(***************************************************************************)
(* hashhaze: the BlurHash encoder of src/blurhash.rs and the batch driver  *)
(* of src/main.rs.                                                         *)
(*                                                                         *)
(* f64 values are modelled in fixed point: the integer v stands for the    *)
(* real v / Scale.  NaN and the two infinities are three integers outside  *)
(* the finite range, and every float operation below treats them the way   *)
(* IEEE-754 and the Rust standard library do (f64::max and f64::min return *)
(* the operand that is a number, `as usize` saturates and sends NaN to 0). *)
(* usize values are plain naturals; the inputs stay far below the word     *)
(* size, so no usize operation of the encoder wraps.                       *)
(***************************************************************************)
EXTENDS Integers, Sequences, FiniteSets

VARIABLES
    pixels, cx, cy, width, height,  \* encode: the arguments
    pc,                             \* encode: the statement about to run
    x, y,                           \* encode: the grid cell of the double loop
    dc, ac,                         \* encode: the coefficients
    maximum_value,                  \* encode: the AC normalisation magnitude
    next_ac,                        \* encode: how many AC factors are emitted
    hash,                           \* encode: the string being built
    result,                         \* encode: what the call returned
    cells,                          \* the grid cells handed to multiply_basis_function
    calls,                          \* the arguments handed to encode_base83_string
    b83_value, b83_length,          \* encode_base83_string called alone: arguments
    b83_out, b83_pc,                \* ... its result, and whether it has returned
    files, content,                 \* the file system: the paths that exist, what they hold
    image_paths,                    \* get_image_paths: the work list
    last_call, ret, decoded,        \* the last call of main.rs, its result, the files it decoded
    stdout,                         \* the lines printed so far
    num_cpus, args,                 \* main: the number of cores, the grid of the command line
    semaphore, waiters,             \* main: the permits left, the tasks queued in acquire
    tasks, results,                 \* main: where each spawned task is, what it returned
    main_pc, spawned, checked,      \* main: its position, and how far its two loops are
    stderr, main_ret                \* main: the errors reported, and what main returned

encode_vars ==
    << pixels, cx, cy, width, height, pc, x, y, dc, ac, maximum_value,
       next_ac, hash, result, cells, calls >>

b83_vars == << b83_value, b83_length, b83_out, b83_pc >>

fs_vars == << files, content, image_paths, last_call, ret, decoded, stdout >>

main_vars ==
    << num_cpus, args, semaphore, waiters, tasks, results, main_pc, spawned,
       checked, stderr, main_ret >>

\* ------------------------------------------------------------------ f64

Scale == 10 ^ 4
Inf == 2 ^ 30
NegInf == 0 - Inf
NaN == Inf + 1
UsizeMax == Inf - 1

IsNaN(a) == a = NaN
IsInf(a) == a = Inf \/ a = NegInf
IsFinite(a) == ~IsNaN(a) /\ ~IsInf(a)

Sign(a) == IF a < 0 THEN 0 - 1 ELSE 1

\* integer quotient rounded toward zero, as a float result is rounded to
\* the nearest representable value of smaller magnitude
TruncDiv(a, b) == Sign(a) * Sign(b) * ((Sign(a) * a) \div (Sign(b) * b))

\* a as f64, for a usize a
F(a) == a * Scale

FNeg(a) ==
    IF IsNaN(a) THEN NaN ELSE 0 - a

FAdd(a, b) ==
    IF IsNaN(a) \/ IsNaN(b) THEN NaN
    ELSE IF IsInf(a) /\ IsInf(b) THEN (IF a = b THEN a ELSE NaN)
    ELSE IF IsInf(a) THEN a
    ELSE IF IsInf(b) THEN b
    ELSE a + b

FMul(a, b) ==
    IF IsNaN(a) \/ IsNaN(b) THEN NaN
    ELSE IF IsInf(a) \/ IsInf(b)
         THEN (IF a = 0 \/ b = 0 THEN NaN
               ELSE IF Sign(a) = Sign(b) THEN Inf ELSE NegInf)
    ELSE IF b % Scale = 0 THEN a * (b \div Scale)
    ELSE IF a % Scale = 0 THEN (a \div Scale) * b
    ELSE TruncDiv(a * b, Scale)

FDiv(a, b) ==
    IF IsNaN(a) \/ IsNaN(b) THEN NaN
    ELSE IF IsInf(a) THEN (IF IsInf(b) THEN NaN
                           ELSE IF Sign(a) = Sign(b) THEN Inf ELSE NegInf)
    ELSE IF IsInf(b) THEN 0
    ELSE IF b = 0 THEN (IF a = 0 THEN NaN ELSE IF a > 0 THEN Inf ELSE NegInf)
    ELSE IF b % Scale = 0 THEN TruncDiv(a, b \div Scale)
    ELSE TruncDiv(a * Scale, b)

\* f64::max and f64::min: when one operand is NaN the other is returned
FMax(a, b) ==
    IF IsNaN(a) THEN b ELSE IF IsNaN(b) THEN a ELSE IF a >= b THEN a ELSE b

FMin(a, b) ==
    IF IsNaN(a) THEN b ELSE IF IsNaN(b) THEN a ELSE IF a <= b THEN a ELSE b

FAbs(a) ==
    IF IsNaN(a) THEN NaN ELSE IF a < 0 THEN 0 - a ELSE a

FFloor(a) ==
    IF ~IsFinite(a) THEN a ELSE (a \div Scale) * Scale

\* `a as usize` for an f64 a: truncates toward zero, saturates, NaN is 0
AsUsize(a) ==
    IF IsNaN(a) \/ a < 0 THEN 0
    ELSE IF a = Inf THEN UsizeMax
    ELSE a \div Scale

\* a.partial_cmp(b): "None" when either operand is NaN
PartialCmp(a, b) ==
    IF IsNaN(a) \/ IsNaN(b) THEN "None"
    ELSE IF a < b THEN "Less"
    ELSE IF a > b THEN "Greater"
    ELSE "Equal"

RECURSIVE SqrtSearch(_, _, _)
SqrtSearch(n, lo, hi) ==
    IF hi - lo <= 1 THEN lo
    ELSE LET mid == (lo + hi) \div 2
         IN  IF mid * mid <= n THEN SqrtSearch(n, mid, hi)
             ELSE SqrtSearch(n, lo, mid)

\* the largest k with k * k <= n, for 0 <= n < 2^30
ISqrt(n) == SqrtSearch(n, 0, 2 ^ 15)

Half == Scale \div 2

RECURSIVE PowInt(_, _)
PowInt(a, n) ==
    IF n = 0 THEN Scale ELSE FMul(a, PowInt(a, n - 1))

\* a.powf(exp) for a >= 0, for the exponents the program and its tests use:
\* 0.5 and the whole numbers
powf(a, exp) ==
    IF IsNaN(a) THEN NaN
    ELSE IF a = Inf THEN Inf
    ELSE IF exp = Half
         THEN (IF a < 10 ^ 5 THEN ISqrt(a * Scale) ELSE ISqrt(a) * ISqrt(Scale))
    ELSE PowInt(a, exp \div Scale)

copysign(a, s) ==
    IF IsNaN(a) THEN NaN
    ELSE IF IsNaN(s) \/ s >= 0 THEN FAbs(a) ELSE FNeg(FAbs(a))

\* ------------------------------------------------------------- f64::cos

PI == 31416

SinPoly(t) ==
    LET t2 == FMul(t, t)
        t3 == FMul(t2, t)
        t5 == FMul(t3, t2)
        t7 == FMul(t5, t2)
    IN  t - t3 \div 6 + t5 \div 120 - t7 \div 5040

CosPoly(t) ==
    LET t2 == FMul(t, t)
        t4 == FMul(t2, t2)
        t6 == FMul(t4, t2)
        t8 == FMul(t4, t4)
    IN  Scale - t2 \div 2 + t4 \div 24 - t6 \div 720 + t8 \div 40320

\* cos(PI * m / d) for 0 <= 2 * m <= d: the argument is in the first quadrant
CosQuadrant(m, d) ==
    IF 4 * m <= d THEN CosPoly((PI * m) \div d)
    ELSE SinPoly((PI * (d - 2 * m)) \div (2 * d))

\* cos(PI * m / d) for 0 <= m <= d
CosHalfTurn(m, d) ==
    IF 2 * m <= d THEN CosQuadrant(m, d) ELSE 0 - CosQuadrant(d - m, d)

\* f64::cos((PI * n) / d) for naturals n and d > 0, by the usual argument
\* reduction: cos has period 2 PI and is even
cos_pi(n, d) ==
    LET r == n % (2 * d)
    IN  IF r <= d THEN CosHalfTurn(r, d) ELSE CosHalfTurn(2 * d - r, d)

\* ------------------------------------------------------ colour transfer

\* SrgbToLinearTable[s + 1] is srgb_to_linear(s) for s in 0..255, that is
\* v / 12.92 for v = s / 255 <= 0.04045 and ((v + 0.055) / 1.055) ^ 2.4
\* above it, rounded to the nearest 1 / Scale
SrgbToLinearTable ==
    << 0, 3, 6, 9, 12, 15, 18, 21, 24, 27, 30, 33,
       37, 40, 44, 48, 52, 56, 60, 65, 70, 75, 80, 86,
       91, 97, 103, 110, 116, 123, 130, 137, 144, 152, 160, 168,
       176, 185, 194, 203, 212, 222, 232, 242, 252, 262, 273, 284,
       296, 307, 319, 331, 343, 356, 369, 382, 395, 409, 423, 437,
       452, 467, 482, 497, 513, 529, 545, 561, 578, 595, 612, 630,
       648, 666, 685, 704, 723, 742, 762, 782, 802, 823, 844, 865,
       887, 908, 931, 953, 976, 999, 1022, 1046, 1070, 1095, 1119, 1144,
       1170, 1195, 1221, 1248, 1274, 1301, 1329, 1356, 1384, 1413, 1441, 1470,
       1500, 1529, 1559, 1590, 1620, 1651, 1683, 1714, 1746, 1779, 1812, 1845,
       1878, 1912, 1946, 1981, 2016, 2051, 2086, 2122, 2159, 2195, 2232, 2270,
       2307, 2346, 2384, 2423, 2462, 2502, 2542, 2582, 2623, 2664, 2705, 2747,
       2789, 2831, 2874, 2918, 2961, 3005, 3050, 3095, 3140, 3185, 3231, 3278,
       3325, 3372, 3419, 3467, 3515, 3564, 3613, 3663, 3712, 3763, 3813, 3864,
       3916, 3968, 4020, 4072, 4125, 4179, 4233, 4287, 4342, 4397, 4452, 4508,
       4564, 4621, 4678, 4735, 4793, 4851, 4910, 4969, 5029, 5089, 5149, 5210,
       5271, 5333, 5395, 5457, 5520, 5583, 5647, 5711, 5776, 5841, 5906, 5972,
       6038, 6105, 6172, 6240, 6308, 6376, 6445, 6514, 6584, 6654, 6724, 6795,
       6867, 6939, 7011, 7084, 7157, 7231, 7305, 7379, 7454, 7529, 7605, 7682,
       7758, 7835, 7913, 7991, 8070, 8148, 8228, 8308, 8388, 8469, 8550, 8632,
       8714, 8796, 8879, 8963, 9047, 9131, 9216, 9301, 9387, 9473, 9560, 9647,
       9734, 9823, 9911, 10000 >>

\* LinearToSrgbSteps[s] is the least v in 0..Scale with
\* linear_to_srgb(v / Scale) >= s, for s in 1..255: the breakpoints of
\* (v * 12.92 * 255 + 0.5) as usize below 0.0031308 and of
\* ((1.055 * v ^ (1 / 2.4) - 0.055) * 255 + 0.5) as usize above it
LinearToSrgbSteps ==
    << 2, 5, 8, 11, 14, 17, 20, 23, 26, 29, 32, 36,
       39, 43, 46, 50, 54, 59, 63, 68, 73, 78, 83, 89,
       95, 101, 107, 113, 120, 127, 134, 141, 149, 156, 164, 173,
       181, 190, 199, 208, 217, 227, 237, 247, 258, 268, 279, 290,
       302, 314, 325, 338, 350, 363, 376, 389, 403, 417, 431, 445,
       460, 475, 490, 505, 521, 537, 554, 570, 587, 604, 622, 640,
       658, 676, 695, 714, 733, 752, 772, 792, 813, 834, 855, 876,
       898, 920, 942, 965, 988, 1011, 1035, 1059, 1083, 1107, 1132, 1157,
       1183, 1209, 1235, 1262, 1288, 1315, 1343, 1371, 1399, 1427, 1456, 1485,
       1515, 1545, 1575, 1605, 1636, 1667, 1699, 1731, 1763, 1796, 1829, 1862,
       1896, 1930, 1964, 1999, 2034, 2069, 2105, 2141, 2177, 2214, 2251, 2289,
       2327, 2365, 2404, 2443, 2482, 2522, 2562, 2603, 2643, 2685, 2726, 2768,
       2811, 2853, 2897, 2940, 2984, 3028, 3073, 3118, 3163, 3209, 3255, 3302,
       3349, 3396, 3444, 3492, 3540, 3589, 3638, 3688, 3738, 3788, 3839, 3890,
       3942, 3994, 4047, 4099, 4153, 4206, 4260, 4315, 4370, 4425, 4480, 4536,
       4593, 4650, 4707, 4765, 4823, 4881, 4940, 5000, 5059, 5119, 5180, 5241,
       5302, 5364, 5426, 5489, 5552, 5616, 5680, 5744, 5809, 5874, 5940, 6006,
       6072, 6139, 6206, 6274, 6342, 6411, 6480, 6549, 6619, 6690, 6760, 6832,
       6903, 6975, 7048, 7121, 7194, 7268, 7342, 7417, 7492, 7568, 7644, 7720,
       7797, 7875, 7952, 8031, 8109, 8189, 8268, 8348, 8429, 8510, 8591, 8673,
       8755, 8838, 8921, 9005, 9089, 9174, 9259, 9344, 9430, 9517, 9604, 9691,
       9779, 9867, 9956 >>

sign_pow(value, exp) == copysign(powf(FAbs(value), exp), value)

linear_to_srgb(value) ==
    LET v == FMax(0, FMin(Scale, value))
    IN  Cardinality({s \in 1..255 : LinearToSrgbSteps[s] <= v})

srgb_to_linear(value) == SrgbToLinearTable[value + 1]

\* --------------------------------------------------------------- Base83

ENCODE_CHARACTERS ==
    << "0", "1", "2", "3", "4", "5", "6", "7", "8", "9", "A", "B", "C", "D", "E", "F", "G", "H", "I",
       "J", "K", "L", "M", "N", "O", "P", "Q", "R", "S", "T", "U", "V", "W", "X", "Y", "Z", "a", "b",
       "c", "d", "e", "f", "g", "h", "i", "j", "k", "l", "m", "n", "o", "p", "q", "r", "s", "t", "u",
       "v", "w", "x", "y", "z", "#", "$", "%", "*", "+", ",", "-", ".", ":", ";", "=", "?", "@", "[",
       "]", "^", "_", "{", "|", "}", "~" >>

\* the range 1..length taken without its end
encode_base83_string_exclusive(value, length) ==
    [i \in 1..(length - 1) |-> ENCODE_CHARACTERS[((value \div (83 ^ (length - i))) % 83) + 1]]

\* the digits taken least significant first
encode_base83_string_reversed(value, length) ==
    [i \in 1..length |-> ENCODE_CHARACTERS[((value \div (83 ^ (i - 1))) % 83) + 1]]

encode_base83_string(value, length) ==
    [i \in 1..length |-> ENCODE_CHARACTERS[((value \div (83 ^ (length - i))) % 83) + 1]]

\* --------------------------------------------------------------- encode

\* pixels[i] of the Rust slice, whose indices start at 0
At(buf, i) == buf[i + 1]

RECURSIVE Accumulate(_, _, _, _, _, _, _, _)
\* the sums r, g, b after the first k iterations of the double loop of
\* multiply_basis_function (x outer, y inner)
Accumulate(buf, w, h, bytes_per_row, bytes_per_pixel, pixel_offset, basis_function, k) ==
    IF k = 0 THEN << 0, 0, 0 >>
    ELSE LET prev == Accumulate(buf, w, h, bytes_per_row, bytes_per_pixel,
                                pixel_offset, basis_function, k - 1)
             px == (k - 1) \div h
             py == (k - 1) % h
             basis == basis_function[F(px), F(py)]
             at == bytes_per_pixel * px + pixel_offset + py * bytes_per_row
         IN  << FAdd(prev[1], FMul(basis, srgb_to_linear(At(buf, at)))),
                FAdd(prev[2], FMul(basis, srgb_to_linear(At(buf, at + 1)))),
                FAdd(prev[3], FMul(basis, srgb_to_linear(At(buf, at + 2)))) >>

\* the closure basis_function is passed as the function of its two arguments
multiply_basis_function(buf, w, h, bytes_per_row, bytes_per_pixel, pixel_offset, basis_function) ==
    LET sum == Accumulate(buf, w, h, bytes_per_row, bytes_per_pixel,
                          pixel_offset, basis_function, w * h)
        scale == FDiv(F(1), F(w * h))
    IN  << FMul(sum[1], scale), FMul(sum[2], scale), FMul(sum[3], scale) >>

\* the closure encode passes for grid cell (bx, by)
basis_closure(normalisation, bx, by, w, h, a, b) ==
    FMul(FMul(normalisation, cos_pi(bx * AsUsize(a), w)), cos_pi(by * AsUsize(b), h))

\* the factor encode computes for grid cell (bx, by)
cell_factor(buf, w, h, bx, by) ==
    LET bytes_per_row == w * 4
        bytes_per_pixel == 4
        normalisation == IF bx = 0 /\ by = 0 THEN F(1) ELSE F(2)
    IN  multiply_basis_function(buf, w, h, bytes_per_row, bytes_per_pixel, 0,
            [a \in { F(i) : i \in 0..(w - 1) }, b \in { F(j) : j \in 0..(h - 1) } |->
                basis_closure(normalisation, bx, by, w, h, a, b)])

encode_dc(value) ==
    LET rounded_r == linear_to_srgb(value[1])
        rounded_g == linear_to_srgb(value[2])
        rounded_b == linear_to_srgb(value[3])
    IN  rounded_r * (2 ^ 16) + rounded_g * (2 ^ 8) + rounded_b

\* the upper clamp at 18 left out
quant_unclamped(v, max_value) ==
    FFloor(FMax(0,
        FFloor(FAdd(FMul(sign_pow(FDiv(v, max_value), Half), F(9)), F(9) + Half))))

\* the rounding offset 0.5 in place of 9.5
quant_uncentred(v, max_value) ==
    FFloor(FMax(0, FMin(F(18),
        FFloor(FAdd(FMul(sign_pow(FDiv(v, max_value), Half), F(9)), Half)))))

quant(v, max_value) ==
    FFloor(FMax(0, FMin(F(18),
        FFloor(FAdd(FMul(sign_pow(FDiv(v, max_value), Half), F(9)), F(9) + Half)))))

encode_ac(value, max_value) ==
    LET quant_r == quant(value[1], max_value)
        quant_g == quant(value[2], max_value)
        quant_b == quant(value[3], max_value)
    IN  AsUsize(FAdd(FAdd(FMul(FMul(quant_r, F(19)), F(19)), FMul(quant_g, F(19))), quant_b))

\* the map closure of encode: the largest magnitude of one factor
factor_magnitude(f) == FMax(FMax(FAbs(f[1]), FAbs(f[2])), FAbs(f[3]))

RECURSIVE max_by(_)
\* Iterator::max_by with partial_cmp(..).unwrap_or(Equal): the running
\* maximum is kept only when it compares Greater than the next element
max_by(s) ==
    IF Len(s) = 1 THEN s[1]
    ELSE LET acc == max_by(SubSeq(s, 1, Len(s) - 1))
             nxt == s[Len(s)]
         IN  IF PartialCmp(acc, nxt) = "Greater" THEN acc ELSE nxt

actual_maximum_value(factors) ==
    max_by([i \in 1..Len(factors) |-> factor_magnitude(factors[i])])

Min(a, b) == IF a <= b THEN a ELSE b
Max(a, b) == IF a >= b THEN a ELSE b

quantised_maximum_value(factors) ==
    Max(0, Min(82, AsUsize(FFloor(FAdd(FMul(actual_maximum_value(factors), F(166)), 0 - Half)))))

\* the two grid dimensions exchanged
size_flag_swapped(gx, gy) == (gy - 1) + (gx - 1) * 9

size_flag(gx, gy) == (gx - 1) + (gy - 1) * 9

\* the upper limit of the rows forgotten
components_invalid_rows_open(gx, gy) == gx < 1 \/ gx > 9 \/ gy < 1

components_invalid(gx, gy) == gx < 1 \/ gx > 9 \/ gy < 1 \/ gy > 9

\* only a buffer that is too short is refused
length_mismatch_short_only(buf, w, h) == w * h * 4 > Len(buf)

length_mismatch(buf, w, h) == w * h * 4 # Len(buf)

\* lines 55-57
CheckComponents ==
    /\ pc = "check_components"
    /\ IF components_invalid(cx, cy)
       THEN /\ result' = "ComponentsNumberInvalid"
            /\ pc' = "done"
       ELSE /\ pc' = "check_length"
            /\ UNCHANGED result
    /\ UNCHANGED << pixels, cx, cy, width, height, x, y, dc, ac,
                    maximum_value, next_ac, hash, cells, calls >>
    /\ UNCHANGED << b83_vars, fs_vars, main_vars >>

\* lines 59-64
CheckLength ==
    /\ pc = "check_length"
    /\ IF length_mismatch(pixels, width, height)
       THEN /\ result' = "BytesPerPixelMismatch"
            /\ pc' = "done"
            /\ UNCHANGED << dc, ac, x, y >>
       ELSE /\ dc' = << 0, 0, 0 >>
            /\ ac' = << >>
            /\ x' = 0
            /\ y' = 0
            /\ pc' = "cells"
            /\ UNCHANGED result
    /\ UNCHANGED << pixels, cx, cy, width, height, maximum_value, next_ac,
                    hash, cells, calls >>
    /\ UNCHANGED << b83_vars, fs_vars, main_vars >>

\* the cell the double loop `for y in 0..cy { for x in 0..cx` visits after
\* (gx, gy), and whether there is one
last_cell(gx, gy) == gx + 1 >= cx /\ gy + 1 >= cy

\* the loops nested the other way: x outer, y inner
next_cell_column_major(gx, gy) ==
    IF gy + 1 < cy THEN << gx, gy + 1 >> ELSE << gx + 1, 0 >>

next_cell(gx, gy) ==
    IF gx + 1 < cx THEN << gx + 1, gy >> ELSE << 0, gy + 1 >>

\* lines 66-91, one iteration of the inner loop
EvalCell ==
    /\ pc = "cells"
    /\ LET factor == cell_factor(pixels, width, height, x, y)
       IN  IF x = 0 /\ y = 0
           THEN dc' = factor /\ UNCHANGED ac
           ELSE ac' = Append(ac, factor) /\ UNCHANGED dc
    /\ cells' = Append(cells, << x, y >>)
    /\ IF last_cell(x, y)
       THEN pc' = "size_flag" /\ UNCHANGED << x, y >>
       ELSE pc' = "cells" /\ x' = next_cell(x, y)[1] /\ y' = next_cell(x, y)[2]
    /\ UNCHANGED << pixels, cx, cy, width, height, maximum_value, next_ac,
                    hash, result, calls >>
    /\ UNCHANGED << b83_vars, fs_vars, main_vars >>

\* hash += &encode_base83_string(value, length)
Emit(value, length) ==
    /\ hash' = hash \o encode_base83_string(value, length)
    /\ calls' = Append(calls, << value, length >>)

\* lines 93-96
EmitSizeFlag ==
    /\ pc = "size_flag"
    /\ Emit(size_flag(cx, cy), 1)
    /\ pc' = "max_flag"
    /\ UNCHANGED << pixels, cx, cy, width, height, x, y, dc, ac,
                    maximum_value, next_ac, result, cells >>
    /\ UNCHANGED << b83_vars, fs_vars, main_vars >>

\* lines 98-117
EmitMaxFlag ==
    /\ pc = "max_flag"
    /\ IF ac # << >>
       THEN /\ maximum_value' = FDiv(F(quantised_maximum_value(ac) + 1), F(166))
            /\ Emit(quantised_maximum_value(ac), 1)
       ELSE /\ maximum_value' = F(1)
            /\ Emit(0, 1)
    /\ pc' = "dc"
    /\ UNCHANGED << pixels, cx, cy, width, height, x, y, dc, ac, next_ac,
                    result, cells >>
    /\ UNCHANGED << b83_vars, fs_vars, main_vars >>

\* line 119
EmitDc ==
    /\ pc = "dc"
    /\ Emit(encode_dc(dc), 4)
    /\ next_ac' = 1
    /\ pc' = "ac"
    /\ UNCHANGED << pixels, cx, cy, width, height, x, y, dc, ac,
                    maximum_value, result, cells >>
    /\ UNCHANGED << b83_vars, fs_vars, main_vars >>

\* lines 121-123, one iteration
EmitAc ==
    /\ pc = "ac"
    /\ next_ac <= Len(ac)
    /\ Emit(encode_ac(ac[next_ac], maximum_value), 2)
    /\ next_ac' = next_ac + 1
    /\ UNCHANGED << pixels, cx, cy, width, height, pc, x, y, dc, ac,
                    maximum_value, result, cells >>
    /\ UNCHANGED << b83_vars, fs_vars, main_vars >>

\* line 125
ReturnOk ==
    /\ pc = "ac"
    /\ next_ac > Len(ac)
    /\ result' = "Ok"
    /\ pc' = "done"
    /\ UNCHANGED << pixels, cx, cy, width, height, x, y, dc, ac,
                    maximum_value, next_ac, hash, cells, calls >>
    /\ UNCHANGED << b83_vars, fs_vars, main_vars >>

\* ------------------------------------------------- the inputs of encode

MaxDim == 2

Black == << 0, 0, 0, 255 >>
Red == << 255, 0, 0, 255 >>
Green == << 0, 255, 0, 255 >>
Blue == << 0, 0, 255, 255 >>
White == << 255, 255, 255, 255 >>

\* an image is painted from a palette, pixel k taking colour k modulo the
\* length of the palette: one colour makes a uniform image, TestColours is
\* the image of test_encode_valid_image
TestColours == << Red, Green, Blue, White >>
Palettes == { << Black >>, << Red >>, TestColours }

PixelBuffer(len, palette) ==
    [i \in 1..len |-> palette[(((i - 1) \div 4) % Len(palette)) + 1][((i - 1) % 4) + 1]]

\* well-formed buffers of every palette, and buffers one byte short and one
\* byte long
PixelInputs(w, h) ==
    { PixelBuffer(w * h * 4, p) : p \in Palettes }
    \cup { PixelBuffer(len, TestColours) : len \in { w * h * 4 - 1, w * h * 4 + 1 } \cap Nat }

EncodeInit ==
    /\ width \in 0..MaxDim
    /\ height \in 0..MaxDim
    /\ pixels \in PixelInputs(width, height)
    /\ cx \in 0..10
    /\ cy \in 0..10
    /\ pc = "check_components"
    /\ x = 0
    /\ y = 0
    /\ dc = << 0, 0, 0 >>
    /\ ac = << >>
    /\ maximum_value = 0
    /\ next_ac = 0
    /\ hash = << >>
    /\ result = "none"
    /\ cells = << >>
    /\ calls = << >>

\* ------------------------------------ the quantiser on any coefficients

\* coefficients no pixel buffer produces: not a number, infinite, negative,
\* above 1
ExtremeValues == { NaN, Inf, NegInf, 0 - 2 * Scale, 0, Half, 3 * Scale }

ExtremeFactors == { << r, g, b >> : r \in ExtremeValues, g \in ExtremeValues, b \in ExtremeValues }

\* encode at line 93, after the loops of a 2 x 1 or a 3 x 1 grid left any
\* coefficients whatever in dc and ac
QuantiseInit ==
    /\ width = 1
    /\ height = 1
    /\ pixels = Black
    /\ cy = 1
    /\ \E f \in ExtremeFactors :
        /\ dc = f
        /\ \/ cx = 2 /\ ac = << f >>
           \/ cx = 3 /\ \E v \in ExtremeValues : ac = << f, << v, v, v >> >>
    /\ cells = [i \in 1..cx |-> << i - 1, 0 >>]
    /\ x = cx - 1
    /\ y = 0
    /\ pc = "size_flag"
    /\ maximum_value = 0
    /\ next_ac = 0
    /\ hash = << >>
    /\ result = "none"
    /\ calls = << >>

\* -------------------------------------- encode_base83_string on its own

MaxValue == 90

Base83Values ==
    (0..MaxValue)
    \cup { 83 ^ k + d : k \in 1..4, d \in { 0 - 1, 0, 1 } }
    \cup { 19 ^ 3 - 1, 2 ^ 24 - 1, 2 ^ 24 }

Base83Init ==
    /\ b83_value \in Base83Values
    /\ b83_length \in 0..4
    /\ b83_out = << >>
    /\ b83_pc = "call"

Base83Idle ==
    /\ b83_value = 0
    /\ b83_length = 0
    /\ b83_out = << >>
    /\ b83_pc = "idle"

EncodeIdle ==
    /\ width = 0
    /\ height = 0
    /\ pixels = << >>
    /\ cx = 0
    /\ cy = 0
    /\ pc = "idle"
    /\ x = 0
    /\ y = 0
    /\ dc = << 0, 0, 0 >>
    /\ ac = << >>
    /\ maximum_value = 0
    /\ next_ac = 0
    /\ hash = << >>
    /\ result = "none"
    /\ cells = << >>
    /\ calls = << >>

\* lines 220-225
Base83Call ==
    /\ b83_pc = "call"
    /\ b83_out' = encode_base83_string(b83_value, b83_length)
    /\ b83_pc' = "returned"
    /\ UNCHANGED << b83_value, b83_length >>
    /\ UNCHANGED << encode_vars, fs_vars, main_vars >>

\* -------------------------------------------------------------- main.rs

\* A path is the sequence of the pieces of its file name between the dots:
\* test.png is << "test", "png" >>.

\* Path::extension, then unwrap_or_default().to_str().unwrap_or("")
extension(path) ==
    IF Len(path) > 1 /\ ~(Len(path) = 2 /\ path[1] = "") THEN path[Len(path)] ELSE ""

\* Path::file_stem: the name without its extension
file_stem(path) ==
    IF Len(path) > 1 /\ ~(Len(path) = 2 /\ path[1] = "")
    THEN SubSeq(path, 1, Len(path) - 1) ELSE path

\* PathBuf::set_extension with a non-empty extension, given by its pieces
set_extension(path, ext) == file_stem(path) \o ext

\* the extension replaced by bh, the original one lost
output_filename_replaced(path) == set_extension(path, << "bh" >>)

\* format!("{}.bh", extension) and set_extension, lines 100-109 and 122-131
output_filename(path) == set_extension(path, << extension(path), "bh" >>)

\* input.with_extension("png"), line 141
temp_png(path) == set_extension(path, << "png" >>)

is_jxl_file(path) == extension(path) = "jxl"

\* println!("Skipping {}: BlurHash file already exists", path.display())
Skipping(path) == << "Skipping", path >>

\* println!("BlurHash saved to: {}", output_filename.display())
SavedTo(path) == << "BlurHash saved to", path >>

\* lines 98-118
CheckAndAddImagePath(path) ==
    /\ last_call' = << "check_and_add_image_path", path >>
    /\ IF output_filename(path) \notin files
       THEN image_paths' = Append(image_paths, path) /\ UNCHANGED stdout
       ELSE UNCHANGED image_paths /\ stdout' = stdout \cup { Skipping(path) }
    /\ ret' = "Ok"
    /\ decoded' = {}
    /\ UNCHANGED << files, content >>

\* image::open and blurhash::encode, lines 156-175: "Ok" when the file is
\* there, decodes, and the grid is one encode accepts
process_regular_image(fs, data, input, components_x, components_y) ==
    IF input \notin fs \/ data[input] # "image" THEN "Err"
    ELSE IF components_invalid(components_x, components_y) THEN "Err"
    ELSE "Ok"

\* lines 120-154
ProcessImage(input, components_x, components_y) ==
    /\ UNCHANGED image_paths
    /\ last_call' = << "process_image", input >>
    /\ IF output_filename(input) \in files
       THEN /\ stdout' = stdout \cup { Skipping(input) }
            /\ ret' = "Ok"
            /\ decoded' = {}
            /\ UNCHANGED << files, content >>
       ELSE IF is_jxl_file(input)
       THEN IF input \notin files \/ content[input] # "image"
            THEN \* process_jxl_file fails
                 /\ ret' = "Err"
                 /\ UNCHANGED stdout
                 /\ decoded' = { input } \cap files
                 /\ UNCHANGED << files, content >>
            ELSE LET png == temp_png(input)
                     fs1 == files \cup { png }
                     data1 == [content EXCEPT ![png] = "image"]
                 IN  IF process_regular_image(fs1, data1, png, components_x, components_y) = "Err"
                     THEN /\ ret' = "Err"
                          /\ UNCHANGED stdout
                          /\ decoded' = { input, png }
                          /\ files' = fs1
                          /\ content' = data1
                     ELSE /\ ret' = "Ok"
                          /\ stdout' = stdout \cup { SavedTo(output_filename(input)) }
                          /\ decoded' = { input, png }
                          /\ files' = (fs1 \cup { output_filename(input) }) \ { png }
                          /\ content' = [data1 EXCEPT ![output_filename(input)] = "blurhash",
                                                      ![png] = ""]
       ELSE IF process_regular_image(files, content, input, components_x, components_y) = "Err"
            THEN /\ ret' = "Err"
                 /\ UNCHANGED stdout
                 /\ decoded' = { input } \cap files
                 /\ UNCHANGED << files, content >>
            ELSE /\ ret' = "Ok"
                 /\ stdout' = stdout \cup { SavedTo(output_filename(input)) }
                 /\ decoded' = { input }
                 /\ files' = files \cup { output_filename(input) }
                 /\ content' = [content EXCEPT ![output_filename(input)] = "blurhash"]

MaxPaths == 2

InputPaths == { << "test", "png" >>, << "test", "jxl" >>, << "test" >> }

AllPaths ==
    InputPaths
    \cup { output_filename(p) : p \in InputPaths }
    \cup { temp_png(p) : p \in InputPaths }

\* the grids handed to process_image: the default of the command line, and
\* one that encode rejects
Grids == { << 4, 3 >>, << 0, 3 >> }

FilesInit ==
    /\ files \in SUBSET InputPaths
    /\ content = [p \in AllPaths |-> IF p \in files THEN "image" ELSE ""]
    /\ image_paths = << >>
    /\ last_call = << >>
    /\ ret = "none"
    /\ decoded = {}
    /\ stdout = {}

FilesIdle ==
    /\ files = {}
    /\ content = << >>
    /\ image_paths = << >>
    /\ last_call = << >>
    /\ ret = "none"
    /\ decoded = {}
    /\ stdout = {}

\* check_and_add_image_path(path, &mut image_paths)
CheckAndAdd ==
    /\ Len(image_paths) < MaxPaths
    /\ \E p \in InputPaths : CheckAndAddImagePath(p)
    /\ UNCHANGED << encode_vars, b83_vars, main_vars >>

\* process_image(input, components_x, components_y)
Process ==
    /\ \E p \in InputPaths : \E g \in Grids : ProcessImage(p, g[1], g[2])
    /\ UNCHANGED << encode_vars, b83_vars, main_vars >>

\* File::create(&bh_file) of the tests: a hash file appears, empty
CreateHashFile ==
    /\ \E p \in InputPaths :
        /\ files' = files \cup { output_filename(p) }
        /\ content' = [content EXCEPT ![output_filename(p)] = ""]
    /\ UNCHANGED << image_paths, last_call, ret, decoded, stdout >>
    /\ UNCHANGED << encode_vars, b83_vars, main_vars >>

\* ------------------------------------------------- main.rs: the batch run

\* the most images of one run, and the most cores of the machine
MaxTasks == 3

MaxCpus == 2

\* the paths get_image_paths hands to check_and_add_image_path: the ones
\* with an image extension
BatchPaths == { p \in InputPaths : extension(p) # "" }

RECURSIVE SeqsUpTo(_, _)
SeqsUpTo(S, n) ==
    IF n = 0 THEN { << >> }
    ELSE LET shorter == SeqsUpTo(S, n - 1)
         IN  shorter \cup { Append(s, e) : s \in shorter, e \in S }

TaskIds == 1 .. Len(image_paths)

\* the tasks that hold a permit: between sem.acquire() and the end of the task
Inside == { i \in TaskIds : tasks[i] = "running" }

\* a permit is taken at once whatever the semaphore holds
can_acquire_unlimited(permits, queue) == TRUE

\* Semaphore::acquire, line 44: a permit is taken at once when one is left
\* and no earlier task is queued for it
can_acquire(permits, queue) == permits > 0 /\ queue = << >>

\* main's state once get_image_paths has returned, lines 31-35: the work list
\* holds paths whose hash file does not exist, the semaphore holds num_cpus
\* permits, nothing is spawned
MainInit ==
    /\ files \in SUBSET BatchPaths
    /\ content = [p \in AllPaths |-> IF p \in files THEN "image" ELSE ""]
    /\ image_paths \in SeqsUpTo(BatchPaths, MaxTasks)
    /\ last_call = << >>
    /\ ret = "none"
    /\ decoded = {}
    /\ stdout = {}
    /\ num_cpus \in 1 .. MaxCpus
    /\ args \in Grids
    /\ semaphore = num_cpus
    /\ waiters = << >>
    /\ tasks = [i \in TaskIds |-> "unspawned"]
    /\ results = [i \in TaskIds |-> "none"]
    /\ main_pc = "spawn"
    /\ spawned = 0
    /\ checked = 0
    /\ stderr = << >>
    /\ main_ret = "none"

MainIdle ==
    /\ num_cpus = 0
    /\ args = << >>
    /\ semaphore = 0
    /\ waiters = << >>
    /\ tasks = << >>
    /\ results = << >>
    /\ main_pc = "idle"
    /\ spawned = 0
    /\ checked = 0
    /\ stderr = << >>
    /\ main_ret = "none"

\* tokio::spawn of the map closure, lines 38-47: one task for the next path
Spawn ==
    /\ main_pc = "spawn"
    /\ spawned < Len(image_paths)
    /\ spawned' = spawned + 1
    /\ tasks' = [tasks EXCEPT ![spawned + 1] = "spawned"]
    /\ UNCHANGED << num_cpus, args, semaphore, waiters, results, main_pc,
                    checked, stderr, main_ret >>
    /\ UNCHANGED << encode_vars, b83_vars, fs_vars >>

\* .collect(), line 48: every path has its task, main goes on to join_all
Collect ==
    /\ main_pc = "spawn"
    /\ spawned = Len(image_paths)
    /\ main_pc' = "join"
    /\ UNCHANGED << num_cpus, args, semaphore, waiters, tasks, results,
                    spawned, checked, stderr, main_ret >>
    /\ UNCHANGED << encode_vars, b83_vars, fs_vars >>

\* sem.acquire().await, line 44, of task i: it takes a permit or queues
Acquire(i) ==
    /\ tasks[i] = "spawned"
    /\ IF can_acquire(semaphore, waiters)
       THEN /\ semaphore' = semaphore - 1
            /\ tasks' = [tasks EXCEPT ![i] = "running"]
            /\ UNCHANGED waiters
       ELSE /\ waiters' = Append(waiters, i)
            /\ tasks' = [tasks EXCEPT ![i] = "waiting"]
            /\ UNCHANGED semaphore
    /\ UNCHANGED << num_cpus, args, results, main_pc, spawned, checked,
                    stderr, main_ret >>
    /\ UNCHANGED << encode_vars, b83_vars, fs_vars >>

\* process_image(path, components_x, components_y).await, line 45, of task
\* i, and the end of the task: its result is kept for the JoinHandle and
\* _permit is dropped, which hands the permit to the first queued task
RunTask(i) ==
    /\ tasks[i] = "running"
    /\ ProcessImage(image_paths[i], args[1], args[2])
    /\ results' = [results EXCEPT ![i] = ret']
    /\ IF waiters = << >>
       THEN /\ semaphore' = semaphore + 1
            /\ tasks' = [tasks EXCEPT ![i] = "done"]
            /\ UNCHANGED waiters
       ELSE /\ waiters' = Tail(waiters)
            /\ tasks' = [tasks EXCEPT ![i] = "done", ![Head(waiters)] = "running"]
            /\ UNCHANGED semaphore
    /\ UNCHANGED << num_cpus, args, main_pc, spawned, checked, stderr, main_ret >>
    /\ UNCHANGED << encode_vars, b83_vars >>

TaskStep == \E i \in TaskIds : Acquire(i) \/ RunTask(i)

\* join_all(tasks).await, line 51: ready once every JoinHandle is
JoinAll ==
    /\ main_pc = "join"
    /\ \A i \in TaskIds : tasks[i] = "done"
    /\ main_pc' = "report"
    /\ UNCHANGED << num_cpus, args, semaphore, waiters, tasks, results,
                    spawned, checked, stderr, main_ret >>
    /\ UNCHANGED << encode_vars, b83_vars, fs_vars >>

\* one turn of the loop of lines 54-58: result? leaves main on a JoinError,
\* an Err of process_image is printed with eprintln!
Report ==
    /\ main_pc = "report"
    /\ checked < Len(image_paths)
    /\ IF results[checked + 1] = "JoinError"
       THEN /\ main_pc' = "returned"
            /\ main_ret' = "Err"
            /\ UNCHANGED << checked, stderr >>
       ELSE /\ checked' = checked + 1
            /\ stderr' = IF results[checked + 1] = "Err"
                         THEN Append(stderr, checked + 1) ELSE stderr
            /\ UNCHANGED << main_pc, main_ret >>
    /\ UNCHANGED << num_cpus, args, semaphore, waiters, tasks, results, spawned >>
    /\ UNCHANGED << encode_vars, b83_vars, fs_vars >>

\* Ok(()), line 60
Return ==
    /\ main_pc = "report"
    /\ checked = Len(image_paths)
    /\ main_pc' = "returned"
    /\ main_ret' = "Ok"
    /\ UNCHANGED << num_cpus, args, semaphore, waiters, tasks, results,
                    spawned, checked, stderr >>
    /\ UNCHANGED << encode_vars, b83_vars, fs_vars >>

\* ------------------------------------------------------- specifications

Init == EncodeInit /\ Base83Idle /\ FilesIdle /\ MainIdle

Next ==
    \/ CheckComponents
    \/ CheckLength
    \/ EvalCell
    \/ EmitSizeFlag
    \/ EmitMaxFlag
    \/ EmitDc
    \/ EmitAc
    \/ ReturnOk

vars == << encode_vars, b83_vars, fs_vars, main_vars >>

Spec == Init /\ [][Next]_vars

Base83Next == Base83Call

InitBase83 == Base83Init /\ EncodeIdle /\ FilesIdle /\ MainIdle

SpecBase83 == InitBase83 /\ [][Base83Next]_vars

InitQuantise == (EncodeInit \/ QuantiseInit) /\ Base83Idle /\ FilesIdle /\ MainIdle

SpecQuantise == InitQuantise /\ [][Next]_vars

FilesNext ==
    \/ CheckAndAdd
    \/ Process
    \/ CreateHashFile

InitFiles == FilesInit /\ EncodeIdle /\ Base83Idle /\ MainIdle

SpecFiles == InitFiles /\ [][FilesNext]_vars

MainNext ==
    \/ Spawn
    \/ Collect
    \/ TaskStep
    \/ JoinAll
    \/ Report
    \/ Return

InitMain == MainInit /\ EncodeIdle /\ Base83Idle

\* the runtime polls every task that can go on and main itself, and the
\* semaphore serves its queue in order: a step that stays possible is taken
SpecMain == InitMain /\ [][MainNext]_vars /\ WF_vars(MainNext)


\* ---------------------------------------------------------------- claims

Alphabet == { ENCODE_CHARACTERS[i] : i \in 1..83 }

\* the position of a character in the alphabet, from 0
CharIndex(c) == CHOOSE k \in 0..82 : ENCODE_CHARACTERS[k + 1] = c

RECURSIVE Decode83(_)
\* the number a string denotes as a base-83 numeral, most significant first
Decode83(str) ==
    IF str = << >> THEN 0
    ELSE 83 * Decode83(SubSeq(str, 1, Len(str) - 1)) + CharIndex(str[Len(str)])

ValidGrid == cx \in 1..9 /\ cy \in 1..9
WellFormed == Len(pixels) = width * height * 4
Returned == pc = "done"

\* C1: for every grid in 1..9 x 1..9 and every buffer of width*height*4
\* bytes, encode returns Ok with a string of exactly
\* 6 + 2*(cx*cy - 1) characters, all of them alphabet characters.
C1_LengthAndAlphabet ==
    (ValidGrid /\ WellFormed) =>
        /\ result \in { "none", "Ok" }
        /\ Returned =>
            /\ result = "Ok"
            /\ Len(hash) = 6 + 2 * (cx * cy - 1)
            /\ \A i \in 1..Len(hash) : hash[i] \in Alphabet

\* the image and grid of test_encode_valid_image, encoded to 28 characters
C1_Witness ==
    /\ Returned /\ result = "Ok"
    /\ cx = 4 /\ cy = 3 /\ width = 2 /\ height = 2
    /\ pixels = Red \o Green \o Blue \o White
    /\ Len(hash) = 28

\* C2: encode returns Err(ComponentsNumberInvalid) exactly when cx or cy is
\* outside 1..9, whatever the buffer, width and height; the error wins over
\* a buffer-length mismatch.
C2_ComponentsInvalidIff ==
    /\ result = "ComponentsNumberInvalid" => ~ValidGrid
    /\ (Returned /\ ~ValidGrid) => result = "ComponentsNumberInvalid"
    /\ ~ValidGrid => (cells = << >> /\ hash = << >>)

\* a grid of 10 columns together with a buffer of the wrong length
C2_Witness ==
    /\ Returned /\ result = "ComponentsNumberInvalid"
    /\ cx = 10 /\ cy = 1
    /\ ~WellFormed

\* C3: with a grid in 1..9 x 1..9 and a buffer whose length is not
\* width*height*4, encode returns Err(BytesPerPixelMismatch), builds no
\* hash string and evaluates no basis function.
C3_LengthMismatch ==
    (ValidGrid /\ ~WellFormed) =>
        /\ result \in { "none", "BytesPerPixelMismatch" }
        /\ Returned => result = "BytesPerPixelMismatch"
        /\ cells = << >>
        /\ hash = << >>
        /\ calls = << >>

\* a 2x2 image whose buffer is one byte short, as in
\* test_encode_invalid_pixel_count
C3_Witness ==
    /\ Returned /\ result = "BytesPerPixelMismatch"
    /\ cx = 4 /\ cy = 3 /\ width = 2 /\ height = 2
    /\ Len(pixels) = 15

\* C4: encode never returns Ok for an image of width 0 or height 0.
C4_ZeroSizeRejected ==
    (width = 0 \/ height = 0) => result # "Ok"

\* C6: the first character of every returned hash is the base-83 digit of
\* (cx-1) + (cy-1)*9, a number in 0..80 from which the grid is recovered as
\* cx = (flag mod 9) + 1 and cy = (flag div 9) + 1.
C6_SizeFlagInvertible ==
    result = "Ok" =>
        LET flag == CharIndex(hash[1])
        IN  /\ hash[1] \in Alphabet
            /\ flag = (cx - 1) + (cy - 1) * 9
            /\ flag \in 0..80
            /\ cx = (flag % 9) + 1
            /\ cy = (flag \div 9) + 1

\* the grid 4 x 3 of the tests: flag 21, character "L"
C6_Witness ==
    /\ result = "Ok" /\ cx = 4 /\ cy = 3
    /\ hash[1] = "L"
    /\ CharIndex(hash[1]) = 21

\* C7: every integer handed to encode_base83_string fits its digits: the
\* size flag and the max-value flag are in 0..82, the packed DC value is in
\* 0..16777215 and every packed AC value is in 0..6858, in every run of
\* encode and for any coefficients, negative, above 1, infinite or NaN.
C7_FieldsFitDigits ==
    \A i \in 1..Len(calls) :
        LET value == calls[i][1]
            length == calls[i][2]
        IN  /\ i \in { 1, 2 } => (length = 1 /\ value \in 0..82)
            /\ i = 3 => (length = 4 /\ value \in 0..16777215)
            /\ i > 3 => (length = 2 /\ value \in 0..6858)
            /\ value < 83 ^ length

\* coefficients +inf, -inf and NaN: the max-value flag saturates at 82,
\* the DC channels clamp to 255, 0, 255 and the AC channels to 18, 0, 18
C7_Witness ==
    /\ Returned /\ result = "Ok"
    /\ dc = << Inf, NegInf, NaN >>
    /\ ac = << dc >>
    /\ calls = << << 1, 1 >>, << 82, 1 >>, << 255 * 65536 + 255, 4 >>,
                  << 18 * 361 + 18, 2 >> >>

UniformImage ==
    /\ width >= 1 /\ height >= 1 /\ WellFormed
    /\ \A i \in 1..Len(pixels) : pixels[i] = pixels[((i - 1) % 4) + 1]

BlackImage ==
    UniformImage /\ pixels[1] = 0 /\ pixels[2] = 0 /\ pixels[3] = 0

\* the AC samples handed to encode_base83_string so far
AcCalls == { i \in 1..Len(calls) : i > 3 }

\* C8 as stated: for a uniform-colour image and any grid in 1..9 x 1..9
\* every AC coefficient is zero and every AC sample is encoded as 3609.
C8_UniformAcIs3609 ==
    (ValidGrid /\ UniformImage) =>
        /\ \A i \in 1..Len(ac) : ac[i] = << 0, 0, 0 >>
        /\ \A i \in AcCalls : calls[i] = << 3609, 2 >>

\* C8 as amended: for a uniformly black image of at least one pixel and any
\* grid in 1..9 x 1..9 every AC coefficient is zero, every AC channel
\* quantises to index 9 and every AC sample is encoded as
\* 9*361 + 9*19 + 9 = 3429, whatever the width and height.
C8_BlackAcIs3429 ==
    (ValidGrid /\ BlackImage) =>
        /\ \A i \in 1..Len(ac) : ac[i] = << 0, 0, 0 >>
        /\ \A i \in AcCalls :
            /\ calls[i] = << 9 * 361 + 9 * 19 + 9, 2 >>
            /\ calls[i][1] = 3429
            /\ \A c \in 1..3 : quant(ac[i - 3][c], maximum_value) = F(9)
        /\ Returned => (result = "Ok" /\ Len(calls) = 3 + (cx * cy - 1))

\* a black 2x1 image on the full 9 x 9 grid: 80 AC samples, all 3429
C8_Witness ==
    /\ Returned /\ result = "Ok"
    /\ BlackImage /\ width = 2 /\ height = 1
    /\ cx = 9 /\ cy = 9
    /\ Len(ac) = 80
    /\ calls[83] = << 3429, 2 >>

RECURSIVE Flatten(_)
Flatten(strs) ==
    IF strs = << >> THEN << >>
    ELSE Flatten(SubSeq(strs, 1, Len(strs) - 1)) \o strs[Len(strs)]

\* C10: grid cells are evaluated in row-major order (y outer, x inner);
\* cell (0,0) becomes the DC value and cell (x,y) is AC entry number
\* y*cx + x - 1 (from 0), so the AC list ends with cx*cy - 1 entries; the
\* hash is the size flag (1 character), the max-value flag (1), the DC
\* value (4) and the AC entries in that order (2 each).
C10_RowMajorLayout ==
    /\ \A i \in 1..Len(cells) : cells[i] = << (i - 1) % cx, (i - 1) \div cx >>
    /\ Len(ac) = IF cells = << >> THEN 0 ELSE Len(cells) - 1
    /\ pc \in { "size_flag", "max_flag", "dc", "ac" } => Len(ac) = cx * cy - 1
    /\ (Returned /\ result = "Ok") =>
        /\ Len(ac) = cx * cy - 1
        /\ dc = cell_factor(pixels, width, height, 0, 0)
        /\ \A gx \in 0..(cx - 1) : \A gy \in 0..(cy - 1) :
            (gx # 0 \/ gy # 0) =>
                ac[gy * cx + gx] = cell_factor(pixels, width, height, gx, gy)
        /\ Len(calls) = 3 + Len(ac)
        /\ calls[1][2] = 1 /\ calls[2][2] = 1 /\ calls[3][2] = 4
        /\ calls[1][1] = (cx - 1) + (cy - 1) * 9
        /\ calls[3][1] = encode_dc(dc)
        /\ \A i \in 1..Len(ac) : calls[3 + i] = << encode_ac(ac[i], maximum_value), 2 >>
        /\ hash = Flatten([i \in 1..Len(calls) |->
                              encode_base83_string(calls[i][1], calls[i][2])])
        /\ Len(hash) = 1 + 1 + 4 + 2 * Len(ac)

\* the test image on the 4 x 3 grid: the factor of cell (1,0) differs from
\* that of cell (0,1), so the order of the loops shows in the AC list
C10_Witness ==
    /\ Returned /\ result = "Ok"
    /\ cx = 4 /\ cy = 3 /\ width = 2 /\ height = 2
    /\ pixels = Red \o Green \o Blue \o White
    /\ Len(ac) = 11
    /\ ac[1] = cell_factor(pixels, width, height, 1, 0)
    /\ ac[4] = cell_factor(pixels, width, height, 0, 1)
    /\ ac[1] # ac[4]
    /\ Len(hash) = 28

\* C5: encode_base83_string(value, digitCount) returns digitCount
\* characters, the i-th being the alphabet character of
\* (value / 83^(digitCount - i)) mod 83; for value < 83^digitCount the
\* string read as a base-83 numeral is value again; (0,1) gives "0",
\* (82,1) gives "~" and (83,2) gives "10".
C5_Base83Digits ==
    b83_pc = "returned" =>
        /\ Len(b83_out) = b83_length
        /\ \A i \in 1..b83_length :
            /\ b83_out[i] \in Alphabet
            /\ CharIndex(b83_out[i]) = (b83_value \div (83 ^ (b83_length - i))) % 83
        /\ b83_value < 83 ^ b83_length => Decode83(b83_out) = b83_value
        /\ (b83_value = 0 /\ b83_length = 1) => b83_out = << "0" >>
        /\ (b83_value = 82 /\ b83_length = 1) => b83_out = << "~" >>
        /\ (b83_value = 83 /\ b83_length = 2) => b83_out = << "1", "0" >>

\* the largest four-digit value, "~~~~", read back
C5_Witness ==
    /\ b83_pc = "returned"
    /\ b83_value = 83 ^ 4 - 1 /\ b83_length = 4
    /\ b83_out = << "~", "~", "~", "~" >>
    /\ Decode83(b83_out) = b83_value

\* the hash file of an image: its path with the extension <ext>.bh
HashFile(path) ==
    IF Len(path) > 1 THEN path \o << "bh" >> ELSE path \o << "", "bh" >>

\* C9: check_and_add_image_path appends the path to the work list exactly
\* when its hash file does not exist, and changes nothing else;
\* process_image on an image whose hash file exists returns Ok, decodes
\* nothing, leaves every file, the hash file included, as it was, and
\* prints that it skips the image.
C9_ExistingHashSkipped ==
    [][ /\ \A p \in InputPaths :
            CheckAndAddImagePath(p) =>
                /\ image_paths' = IF HashFile(p) \in files
                                  THEN image_paths ELSE Append(image_paths, p)
                /\ files' = files /\ content' = content
                /\ HashFile(p) \in files => Skipping(p) \in stdout'
        /\ \A p \in InputPaths : \A g \in Grids :
            (ProcessImage(p, g[1], g[2]) /\ HashFile(p) \in files) =>
                /\ ret' = "Ok"
                /\ decoded' = {}
                /\ files' = files /\ content' = content
                /\ image_paths' = image_paths
                /\ Skipping(p) \in stdout' /\ SavedTo(HashFile(p)) \notin (stdout' \ stdout)
      ]_vars

\* test.png.bh was created empty and process_image was then called on
\* test.png: it printed the skip, returned Ok, decoded nothing and the hash
\* file is still empty
C9_Witness ==
    /\ last_call = << "process_image", << "test", "png" >> >>
    /\ Skipping(<< "test", "png" >>) \in stdout
    /\ << "test", "png" >> \in files
    /\ << "test", "png", "bh" >> \in files
    /\ content[<< "test", "png", "bh" >>] = ""
    /\ image_paths = << >>
    /\ ret = "Ok"
    /\ decoded = {}

\* the errors main has printed are those of the first n tasks, in order
RECURSIVE ErrsUpTo(_)
ErrsUpTo(n) ==
    IF n = 0 THEN << >>
    ELSE IF results[n] = "Err" THEN Append(ErrsUpTo(n - 1), n)
    ELSE ErrsUpTo(n - 1)

\* what holds at every moment of the batch run
BatchSafety ==
    \* one task per discovered image, spawned in the order of the list
    /\ DOMAIN tasks = TaskIds
    /\ \A i \in TaskIds : tasks[i] = "unspawned" <=> i > spawned
    /\ main_pc # "spawn" => spawned = Len(image_paths)
    \* a task is inside process_image only with a permit, and the permits
    \* out plus the permits left are the num_cpus of the start
    /\ semaphore >= 0
    /\ Cardinality(Inside) + semaphore = num_cpus
    /\ Cardinality(Inside) <= num_cpus
    \* the queue holds exactly the tasks that wait, and only when no permit is left
    /\ \A i \in TaskIds : tasks[i] = "waiting" <=> \E k \in 1 .. Len(waiters) : waiters[k] = i
    /\ waiters # << >> => semaphore = 0
    \* a task has a result exactly when it has ended, success or error
    /\ \A i \in TaskIds : tasks[i] = "done" <=> results[i] \in { "Ok", "Err" }
    \* main is past join_all only when every task has ended and given its permit back
    /\ main_pc \in { "report", "returned" } =>
        /\ \A i \in TaskIds : tasks[i] = "done"
        /\ semaphore = num_cpus
    \* an Err is only reported: main returns Ok with every Err printed
    /\ main_pc = "report" => stderr = ErrsUpTo(checked)
    /\ main_pc = "returned" => main_ret = "Ok" /\ stderr = ErrsUpTo(Len(image_paths))

\* C11: in main's batch run there is one task per discovered image; at every
\* moment at most num_cpus tasks are inside process_image, each holding a
\* permit; main is past join_all only when every task has ended, whatever
\* process_image returned, and an Err is only printed; and every run goes on
\* until every task has acquired a permit and ended and main has returned Ok.
C11_BatchRun ==
    /\ []BatchSafety
    /\ <>(main_pc = "returned" /\ \A i \in TaskIds : tasks[i] = "done")

\* one task has ended with an Err while a second is inside process_image
\* and a third still waits for a permit
C11_Witness ==
    /\ main_pc = "join"
    /\ \E i, j, k \in TaskIds :
        /\ tasks[i] = "done" /\ results[i] = "Err"
        /\ tasks[j] = "running"
        /\ tasks[k] = "waiting"

====
